---- MODULE Spec2Model ----
(***************************************************************************)
(* A model of the lynx allocator (src/src/lynx_alloc.c).                   *)
(*                                                                         *)
(* Memory is a sparse map from byte addresses of 8-byte words to the word  *)
(* stored there (absent = 0, as an anonymous mapping is zero-filled).      *)
(* Block headers, footers, the free-list links kept in the payload of free *)
(* blocks, the region records and the user's payload all live in that one  *)
(* memory, so that a write through a stale or overlapping pointer has the  *)
(* effect it has in the program.  An access outside the mapped pages ends  *)
(* the process (st = "segv"), a failed assert ends it (st = "abort_*"), a  *)
(* walk that can never end is st = "hang".                                 *)
(*                                                                         *)
(* size_t and pointers are SizeBits wide; the program's are 64 bits wide,  *)
(* which TLC's integers cannot hold, so the width is scaled down and all   *)
(* size_t arithmetic is reduced modulo 2^SizeBits.                         *)
(***************************************************************************)
EXTENDS Integers, Sequences, FiniteSets, TLC

\* ------------------------------------------------------------------------
\* Bounds of the model
\* ------------------------------------------------------------------------

\* width of size_t / uintptr_t in the model
SizeBits == 15
\* pages the kernel may hand out are 1..NPages (page 0 is never mapped)
NPages == 2
\* number of blocks handed out in one run
MaxAllocs == 3
\* number of pointers the caller holds at once
MaxLive == 2

\* ------------------------------------------------------------------------
\* Program constants
\* ------------------------------------------------------------------------

PageSize == 4096
\* sizeof(block_t) and sizeof(block_t *): one machine word
Word == 8
\* sizeof(region_t): start, block_list, n_free, n_used, next, prev
RegionRecSize == 48
DEFAULT_REGION_SIZE == 4096
MAX_BLOCK_ALLOC == 2048
RESERVE_CAPACITY == 0
MIN_SPLIT_SIZE == 32
DEFAULT_SCRIBBLE_CHAR == 0
ENOMEM == 12
NULL == 0

\* offsets of the fields of region_t
OffStart == 0
OffBlockList == 8
OffNFree == 16
OffNUsed == 24
OffNext == 32
OffPrev == 40

RECURSIVE Pow2(_)
Pow2(n) == IF n = 0 THEN 1 ELSE 2 * Pow2(n - 1)

SizeMod == Pow2(SizeBits)
SIZE_MAX == SizeMod - 1

\* ------------------------------------------------------------------------
\* Machine arithmetic
\* ------------------------------------------------------------------------

\* a value as a size_t
U(x) == x % SizeMod

RECURSIVE BitAndN(_, _, _)
BitAndN(a, b, n) ==
  IF n = 0 THEN 0
  ELSE (IF a % 2 = 1 /\ b % 2 = 1 THEN 1 ELSE 0)
       + 2 * BitAndN(a \div 2, b \div 2, n - 1)

BitAnd(a, b) == BitAndN(U(a), U(b), SizeBits)
BitNot(a) == SIZE_MAX - U(a)
BitOr(a, b) == BitNot(BitAnd(BitNot(a), BitNot(b)))

\* a * b as a size_t, without leaving TLC's integers
RECURSIVE MulMod(_, _)
MulMod(a, b) ==
  IF b = 0 THEN 0
  ELSE U((IF b % 2 = 1 THEN a ELSE 0) + 2 * MulMod(a, b \div 2))

Mul(a, b) == MulMod(U(a), U(b))

MIN(a, b) == IF a < b THEN a ELSE b

\* is_overflow by comparing the product with one factor only
is_overflow_below(a, b, product) == a # 0 /\ product < a

is_overflow(a, b, product) == a # 0 /\ (product \div a) # b

\* next16 without the rounding up to the next multiple of 16
next16_unrounded(size) == U(16 + size)

next16(size) == U(16 + BitOr(size, 15) + 1)

align(addr) == U(BitOr(addr, 15) + 1)

\* ------------------------------------------------------------------------
\* The machine: memory, mappings, globals.  A machine m is a record
\*   mem      the words of memory that are not zero
\*   pages    the mapped pages
\*   root, config, malloc_init, errno, counters   the program's globals
\*   st       "ok", or how the process ended
\*   kq       the kernel's answers to the mmap calls still to come
\*   kok      FALSE once an answer was one the kernel cannot give
\*   starved  TRUE once mmap was called with no answer left
\*   mapfail  TRUE once an mmap answered MAP_FAILED
\*   npages   the number of pages the kernel has to hand out
\* ------------------------------------------------------------------------

PageOf(a) == a \div PageSize

Mapped(m, a) == a >= 0 /\ PageOf(a) \in m.pages

Rd(m, a) == IF a \in DOMAIN m.mem THEN m.mem[a] ELSE 0

Store(mem, a, v) ==
  IF v = 0 THEN [x \in (DOMAIN mem) \ {a} |-> mem[x]]
  ELSE [x \in (DOMAIN mem) \cup {a} |-> IF x = a THEN v ELSE mem[x]]

Die(m, how) == IF m.st = "ok" THEN [m EXCEPT !.st = how] ELSE m

\* the effect of touching the word at a: a fault when a is not mapped
Acc(m, a) ==
  IF m.st # "ok" THEN m
  ELSE IF ~Mapped(m, a) THEN Die(m, "segv")
  ELSE IF a % Word # 0 THEN Die(m, "wild")
  ELSE m

Wr(m, a, v) ==
  LET m1 == Acc(m, a)
  IN  IF m1.st # "ok" THEN m1 ELSE [m1 EXCEPT !.mem = Store(@, a, v)]

\* the pages of [addr, addr + len)
PagesOf(addr, len) == { p \in 0..(PageOf(SIZE_MAX)) :
                          p * PageSize < addr + len /\ (p + 1) * PageSize > addr }

\* can the kernel answer mmap(NULL, len) with addr?
MmapValid(m, addr, len) ==
  /\ len > 0
  /\ addr > 0
  /\ addr % PageSize = 0
  /\ addr + len <= SizeMod
  /\ PagesOf(addr, len) \subseteq (1..m.npages) \ m.pages

MAP_FAILED == SIZE_MAX

\* mmap(NULL, len, ...): [m, v], v the address or MAP_FAILED
Mmap(m, len) ==
  IF m.st # "ok" THEN [m |-> m, v |-> MAP_FAILED]
  ELSE IF m.kq = <<>> THEN [m |-> [m EXCEPT !.starved = TRUE, !.st = "starved"],
                            v |-> MAP_FAILED]
  ELSE LET a == Head(m.kq)
           m1 == [m EXCEPT !.kq = Tail(@)]
       IN  IF a = 0
           THEN [m |-> [m1 EXCEPT !.errno = ENOMEM, !.mapfail = TRUE],
                 v |-> MAP_FAILED]
           ELSE IF ~MmapValid(m, a, len)
           THEN [m |-> [m1 EXCEPT !.kok = FALSE, !.st = "nokernel"], v |-> MAP_FAILED]
           ELSE [m |-> [m1 EXCEPT !.pages = @ \cup PagesOf(a, len)], v |-> a]

\* munmap(addr, len): the pages go, and what they held with them
Munmap(m, addr, len) ==
  IF m.st # "ok" THEN m
  ELSE IF addr % PageSize # 0 \/ len = 0 THEN m
  ELSE LET gone == PagesOf(addr, len)
       IN  [m EXCEPT !.pages = @ \ gone,
                     !.mem = [x \in { y \in DOMAIN m.mem : PageOf(y) \notin gone }
                                |-> m.mem[x]]]

\* ------------------------------------------------------------------------
\* Helper functions of the allocator.  A function of the program that
\* changes memory is an operator from a machine to a machine; one that
\* also returns a value yields [m, v].  The steps of a function are
\* operators of their own, each taking the machine the step before left.
\* ------------------------------------------------------------------------

Res(m, v) == [m |-> m, v |-> v]

REGION_MASK(m) == BitNot(m.config.region_size - 1)

to_region(m, addr) == BitAnd(addr, REGION_MASK(m))

block_size(m, blk) == BitAnd(Rd(m, blk), BitNot(15))

block_data(blk) == U(blk + Word)

block_next(m, blk) == U(blk + block_size(m, blk))

block_ftr(m, blk) == U(block_next(m, blk) - Word)

prev_ftr(blk) == U(blk - Word)

prev_block(m, blk) == U(blk - block_size(m, prev_ftr(blk)))

to_block(data_addr) == U(data_addr - Word)

\* *a &= ~0xf
ClearFlags(m, a) == Wr(m, a, BitAnd(Rd(m, a), BitNot(15)))

\* *a |= 0x1
SetUsedFlag(m, a) == Wr(m, a, BitOr(Rd(m, a), 1))

ClearFtrFlags(m, blk) == ClearFlags(m, block_ftr(m, blk))

SetFtrUsedFlag(m, blk) == SetUsedFlag(m, block_ftr(m, blk))

mark_block_free(m, blk) == ClearFtrFlags(ClearFlags(m, blk), blk)

mark_block_used(m, blk) == SetFtrUsedFlag(SetUsedFlag(m, blk), blk)

is_used(m, blk) == BitAnd(Rd(m, blk), 1) # 0

is_free(m, blk) == ~is_used(m, blk)

is_large(m, blk) == BitAnd(Rd(m, blk), 2) # 0

mark_large(m, blk) == Wr(m, blk, BitOr(Rd(m, blk), 2))

next_ptr(blk) == block_data(blk)

prev_ptr(blk) == U(block_data(blk) + Word)

get_next_free(m, blk) == Rd(m, next_ptr(blk))

get_prev_free(m, blk) == Rd(m, prev_ptr(blk))

\* *block_ftr(blk) = v
SetFtr(m, blk, v) == Wr(m, block_ftr(m, blk), v)

\* *block_next(blk) = v
SetNextHdr(m, blk, v) == Wr(m, block_next(m, blk), v)

\* fields of a region record
RField(m, r, off) == Rd(m, U(r + off))

WrField(m, r, off, v) == Wr(m, U(r + off), v)

\* r->field += d
AddField(m, r, off, d) == WrField(m, r, off, RField(m, r, off) + d)

\* to_region(blk)->field += d
AddRegionField(m, blk, off, d) == AddField(m, to_region(m, blk), off, d)

Bump(m, c) == IF m.st # "ok" THEN m ELSE [m EXCEPT !.counters[c] = @ + 1]

SetRoot(m, r) == IF m.st # "ok" THEN m ELSE [m EXCEPT !.root = r]

\* ------------------------------------------------------------------------
\* Regions and large blocks
\* ------------------------------------------------------------------------

\* region_trim without the munmap of what follows the region
region_trim_headonly(r2, rs) ==
  LET start == r2.v
      addr == U(start + (rs - (start % rs)))
      change == U(addr - start)
  IN  IF r2.v = MAP_FAILED THEN Res(r2.m, NULL)
      ELSE IF r2.v % rs = 0 THEN Res(Munmap(r2.m, U(r2.v + rs), rs), r2.v)
      ELSE Res(Munmap(r2.m, start, change), addr)

\* region_create, the doubled mapping was made: trim it to a region
region_trim(r2, rs) ==
  LET start == r2.v
      addr == U(start + (rs - (start % rs)))
      change == U(addr - start)
      end == U(addr + rs)
  IN  IF r2.v = MAP_FAILED THEN Res(r2.m, NULL)
      ELSE IF r2.v % rs = 0 THEN Res(Munmap(r2.m, U(r2.v + rs), rs), r2.v)
      ELSE Res(Munmap(Munmap(r2.m, start, change), end, U(rs - change)), addr)

\* region_create, the first mapping was made
region_aligned(r1, rs) ==
  IF r1.v = MAP_FAILED THEN Res(r1.m, NULL)
  ELSE IF r1.v % rs = 0 THEN r1
  ELSE region_trim(Mmap(Munmap(r1.m, r1.v, rs), U(2 * rs)), rs)

\* the mapping step of region_create: [m, v], v the aligned base or NULL
region_map(m) == region_aligned(Mmap(m, m.config.region_size), m.config.region_size)

\* region_create, the record and the three blocks written at addr
region_layout(m, addr, rs) ==
  LET blk_data == align(U(addr + RegionRecSize + Word))
      next_data == align(U(blk_data + 1))
      size0 == U(next_data - blk_data)
      blk0 == to_block(blk_data)
      blk1 == to_block(next_data)
      size1 == U(U(addr + rs) - next_data)
      nextp == block_data(blk1)
      \* next_ptr + sizeof(block_t *) on a block_t **: eight pointers on
      prevp == U(nextp + Word * Word)
      m1 == WrField(m, addr, OffNFree, 1)
      m2 == WrField(m1, addr, OffNUsed, 0)
      m3 == WrField(m2, addr, OffNext, NULL)
      m4 == WrField(m3, addr, OffPrev, NULL)
      m5 == Wr(m4, blk0, size0)
      m6 == SetFtr(m5, blk0, size0)
      m7 == mark_block_used(m6, blk0)
      m8 == WrField(m7, addr, OffStart, blk0)
      m9 == Wr(m8, blk1, size1)
      m10 == SetFtr(m9, blk1, size1)
      m11 == mark_block_free(m10, blk1)
      m12 == WrField(m11, addr, OffBlockList, blk1)
      m13 == Wr(m12, nextp, 0)
      m14 == Wr(m13, prevp, 0)
      m15 == SetNextHdr(m14, blk1, 1)
  IN  Bump(m15, "region_allocs")

region_init(rm, rs) ==
  IF rm.m.st # "ok" \/ rm.v = NULL THEN Res(rm.m, NULL)
  ELSE Res(region_layout(rm.m, rm.v, rs), rm.v)

\* region_create(): [m, v], v the new region or NULL
region_create(m) == region_init(region_map(m), m.config.region_size)

\* clean_regions: if (del->prev) { assert(del->prev->next == del);
\* del->prev->next = del->next; assert(del != root); }
clean_prev(m, del) ==
  LET prev == RField(m, del, OffPrev)
      a == Acc(m, U(prev + OffNext))
  IN  IF m.st # "ok" \/ prev = NULL THEN m
      ELSE IF a.st # "ok" THEN a
      ELSE IF RField(m, prev, OffNext) # del THEN Die(m, "abort_list")
      ELSE IF del = m.root THEN Die(m, "abort_list")
      ELSE WrField(m, prev, OffNext, RField(m, del, OffNext))

\* clean_regions: if (del->next) { assert(del->next->prev == del);
\* del->next->prev = del->prev; }
clean_next(m, del) ==
  LET next == RField(m, del, OffNext)
      a == Acc(m, U(next + OffPrev))
  IN  IF m.st # "ok" \/ next = NULL THEN m
      ELSE IF a.st # "ok" THEN a
      ELSE IF RField(m, next, OffPrev) # del THEN Die(m, "abort_list")
      ELSE WrField(m, next, OffPrev, RField(m, del, OffPrev))

\* clean_regions without the move of root
clean_root_stale(m, del) == m

\* clean_regions: root = del == root ? del->next : root; assert(root != del)
clean_root(m, del) ==
  LET r == IF del = m.root THEN RField(m, del, OffNext) ELSE m.root
  IN  IF m.st # "ok" THEN m
      ELSE IF r = del THEN Die(m, "abort_list")
      ELSE SetRoot(m, r)

clean_unmap(m, del) == Bump(Munmap(m, del, m.config.region_size), "region_frees")

clean_regions(m, last_blk) ==
  LET del == to_region(m, last_blk)
      m0 == Acc(m, U(del + OffNUsed))
  IN  IF m0.st # "ok" THEN m0
      ELSE IF RField(m, del, OffNUsed) # 0 THEN m
      ELSE clean_unmap(clean_root(clean_next(clean_prev(m, del), del), del), del)

\* create_large_block, the mapping was made.  The assert on adjusted_size
\* (it fits 32 bits) holds for every size the callers here pass
large_init(r, adjusted_size) ==
  LET data_start == U(r.v + 16)
      blk == to_block(data_start)
  IN  IF r.m.st # "ok" \/ r.v = MAP_FAILED THEN Res(r.m, NULL)
      ELSE Res(mark_large(Wr(r.m, blk, adjusted_size), blk), blk)

\* create_large_block(size): [m, v], v the block or NULL
create_large_block(m, size) == large_init(Mmap(m, next16(size)), next16(size))

\* free_large_block unmapping from the payload on
free_large_block_payload(m, blk) ==
  LET addr == block_data(blk)
      m1 == Acc(m, blk)
  IN  IF m1.st # "ok" THEN m1 ELSE Munmap(m, addr, block_size(m, blk))

free_large_block(m, blk) ==
  LET addr == U(block_data(blk) - 16)
      m1 == Acc(m, blk)
  IN  IF m1.st # "ok" THEN m1 ELSE Munmap(m, addr, block_size(m, blk))

\* ------------------------------------------------------------------------
\* The free list: search, merge, split
\* ------------------------------------------------------------------------

\* the inner loop of next_free taking a block that fits only when it is the
\* last of its list
RECURSIVE free_walk_last(_, _, _, _)
free_walk_last(m, blk, desired, seen) ==
  LET m1 == Acc(m, blk)
      m2 == Acc(m1, next_ptr(blk))
      new_blk == get_next_free(m, blk)
  IN  IF m1.st # "ok" THEN Res(m1, NULL)
      ELSE IF m2.st # "ok" THEN Res(m2, NULL)
      ELSE IF new_blk = 0
      THEN Res(m, IF block_size(m, blk) >= desired THEN blk ELSE NULL)
      ELSE IF new_blk \in seen THEN Res(Die(m, "hang"), NULL)
      ELSE free_walk_last(m, new_blk, desired, seen \cup {new_blk})

\* the inner loop of next_free and the test after it: [m, v] with v the
\* block that fits, or NULL when the list of this region holds none
RECURSIVE free_walk(_, _, _, _)
free_walk(m, blk, desired, seen) ==
  LET m1 == Acc(m, blk)
      m2 == Acc(m1, next_ptr(blk))
      new_blk == get_next_free(m, blk)
  IN  IF m1.st # "ok" THEN Res(m1, NULL)
      ELSE IF block_size(m, blk) >= desired THEN Res(m, blk)
      ELSE IF m2.st # "ok" THEN Res(m2, NULL)
      ELSE IF new_blk = 0 THEN Res(m, NULL)
      ELSE IF new_blk \in seen THEN Res(Die(m, "hang"), NULL)
      ELSE free_walk(m, new_blk, desired, seen \cup {new_blk})

\* next_free(desired) from region cur on: [m, v]
RECURSIVE next_free_from(_, _, _, _)
RECURSIVE next_free_after(_, _, _, _)
next_free_from(m, cur, desired, seen) ==
  LET m1 == Acc(m, U(cur + OffNFree))
      blk == RField(m, cur, OffBlockList)
      nxt == RField(m, cur, OffNext)
  IN  IF m.st # "ok" \/ cur = NULL THEN Res(m, NULL)
      ELSE IF cur \in seen THEN Res(Die(m, "hang"), NULL)
      ELSE IF m1.st # "ok" THEN Res(m1, NULL)
      ELSE IF RField(m, cur, OffNFree) < 1
      THEN next_free_from(m, nxt, desired, seen \cup {cur})
      ELSE next_free_after(free_walk(m, blk, desired, {blk}), nxt, desired,
                           seen \cup {cur})

\* next_free, the list of one region was walked
next_free_after(w, nxt, desired, seen) ==
  IF w.m.st # "ok" \/ w.v # NULL THEN w
  ELSE next_free_from(w.m, nxt, desired, seen)

next_free(m, desired) == next_free_from(m, m.root, desired, {})

\* the depth the recursions of merge are followed to
MergeFuel == 300

\* merge_left, the previous block is free: it absorbs blk
merge_left_join(m, blk, prev_metadata) ==
  LET new_size == U(block_size(m, prev_metadata) + block_size(m, blk))
      m1 == Wr(m, prev_metadata, new_size)
      m2 == SetFtr(m1, blk, new_size)
      m3 == mark_block_free(m2, prev_metadata)
  IN  AddRegionField(m3, blk, OffNFree, -1)

\* merge_left(blk): [m, v]
RECURSIVE merge_left(_, _, _)
RECURSIVE merge_left_again(_, _, _, _)
merge_left(m, blk, fuel) ==
  LET m1 == Acc(m, prev_ftr(blk))
      prev_metadata == prev_block(m, blk)
      m2 == Acc(m1, prev_metadata)
  IN  IF m2.st # "ok" THEN Res(m2, blk)
      ELSE IF ~is_free(m, prev_metadata) THEN Res(m, blk)
      ELSE merge_left_again(merge_left_join(m, blk, prev_metadata),
                            prev_metadata, blk, fuel)

merge_left_again(m, prev_metadata, blk, fuel) ==
  IF m.st # "ok" THEN Res(m, blk)
  ELSE IF fuel = 0 THEN Res(Die(m, "hang"), blk)
  ELSE merge_left(m, prev_metadata, fuel - 1)

\* merge_right, the absorbed block was the head of the free list
merge_right_head(m, reg, blk, old_root, next_next_prev_ptr) ==
  LET a == Acc(m, next_ptr(old_root))
  IN  IF a.st # "ok" THEN a
      ELSE IF get_next_free(m, old_root) = 0
      THEN WrField(m, reg, OffBlockList, blk)
      ELSE Wr(WrField(m, reg, OffBlockList, get_next_free(m, old_root)),
              next_next_prev_ptr, 0)

\* merge_right, the absorbed block was not the head: its successor
merge_right_succ(m, blk, next_next, next_prev, next_next_prev_ptr) ==
  IF next_next # 0 THEN Wr(m, next_next_prev_ptr, next_prev)
  ELSE IF next_next = blk THEN Wr(m, next_next_prev_ptr, 0)
  ELSE m

\* merge_right, the absorbed block was not the head: its predecessor
merge_right_pred(m, next_next, next_prev) ==
  IF next_prev # 0 THEN Wr(m, next_ptr(next_prev), next_next) ELSE m

\* merge_right, the sizes were written: take next_metadata off the list
merge_right_unlink(m, blk, next_metadata) ==
  LET m1 == Acc(m, next_ptr(next_metadata))
      m2 == Acc(m1, prev_ptr(next_metadata))
      next_next == get_next_free(m, next_metadata)
      next_prev == get_prev_free(m, next_metadata)
      next_next_prev_ptr == prev_ptr(next_next)
      reg == to_region(m, blk)
      m3 == Acc(m2, U(reg + OffBlockList))
      old_root == RField(m, reg, OffBlockList)
  IN  IF m3.st # "ok" THEN m3
      ELSE IF old_root = next_metadata
      THEN merge_right_head(m, reg, blk, old_root, next_next_prev_ptr)
      ELSE merge_right_pred(
             merge_right_succ(m, blk, next_next, next_prev, next_next_prev_ptr),
             next_next, next_prev)

\* merge_right, the next block is free: blk absorbs it
merge_right_join(m, blk, next_metadata) ==
  LET new_size == U(block_size(m, next_metadata) + block_size(m, blk))
      m1 == SetFtr(m, next_metadata, new_size)
      m2 == Wr(m1, blk, new_size)
      m3 == merge_right_unlink(m2, blk, next_metadata)
      m4 == mark_block_free(m3, blk)
  IN  AddRegionField(m4, blk, OffNFree, -1)

\* merge_right(blk): [m, v]
RECURSIVE merge_right(_, _, _)
RECURSIVE merge_right_again(_, _, _)
merge_right(m, blk, fuel) ==
  LET m1 == Acc(m, blk)
      next_metadata == block_next(m, blk)
      m2 == Acc(m1, next_metadata)
  IN  IF m2.st # "ok" THEN Res(m2, blk)
      ELSE IF ~is_free(m, next_metadata) THEN Res(m, blk)
      ELSE merge_right_again(merge_right_join(m, blk, next_metadata), blk, fuel)

merge_right_again(m, blk, fuel) ==
  IF m.st # "ok" THEN Res(m, blk)
  ELSE IF fuel = 0 THEN Res(Die(m, "hang"), blk)
  ELSE merge_right(m, blk, fuel - 1)

\* *dst = *src
CopyWord(m, dst, src) == Wr(m, dst, Rd(m, src))

\* swap_root, the list is empty
swap_root_empty(m, reg, blk) ==
  LET m1 == WrField(m, reg, OffBlockList, blk)
      m2 == Wr(m1, block_data(blk), 0)
  IN  Wr(m2, U(block_data(blk) + Word), 0)

\* swap_root putting blk behind the head instead of before it
swap_root_behind(m, reg, blk, last_root, blk_prev, blk_next) ==
  LET m1 == IF blk_prev # 0 THEN Wr(m, next_ptr(blk_prev), blk_next) ELSE m
      m2 == IF blk_next # 0 THEN Wr(m1, prev_ptr(blk_next), blk_prev) ELSE m1
      second == get_next_free(m2, last_root)
      m3 == Wr(m2, next_ptr(blk), second)
      m4 == Wr(m3, prev_ptr(blk), last_root)
      m5 == Wr(m4, next_ptr(last_root), blk)
  IN  IF second # 0 THEN Wr(m5, prev_ptr(second), blk) ELSE m5

\* swap_root, another block is the head
swap_root_push(m, reg, blk, last_root, blk_prev, blk_next) ==
  LET new_next == next_ptr(blk)
      m1 == Wr(m, new_next, last_root)
      m2 == WrField(m1, reg, OffBlockList, blk)
      m3 == Wr(m2, prev_ptr(last_root), blk)
      m4 == IF blk_prev # 0 THEN Wr(m3, next_ptr(blk_prev), blk_next) ELSE m3
      m5 == IF blk_next # 0 THEN Wr(m4, prev_ptr(blk_next), blk_prev) ELSE m4
      m6 == Wr(m5, prev_ptr(blk), 0)
  IN  CopyWord(m6, next_ptr(blk), new_next)

swap_root(m, blk) ==
  LET reg == to_region(m, blk)
      m1 == Acc(m, U(reg + OffBlockList))
      m2 == Acc(m1, prev_ptr(blk))
      m3 == Acc(m2, next_ptr(blk))
      last_root == RField(m, reg, OffBlockList)
      blk_prev == get_prev_free(m, blk)
      blk_next == get_next_free(m, blk)
  IN  IF m3.st # "ok" THEN m3
      ELSE IF last_root = 0 THEN swap_root_empty(m, reg, blk)
      ELSE IF last_root # blk
      THEN swap_root_push(m, reg, blk, last_root, blk_prev, blk_next)
      ELSE m

\* merge, the left merge is done
merge_rest(l) == merge_right(swap_root(l.m, l.v), l.v, MergeFuel)

\* merge(blk): [m, v]
merge(m, blk) == merge_rest(merge_left(m, blk, MergeFuel))

\* split, the prefix was written: the suffix
split_suffix(m, blk, free_size) ==
  LET next_b == block_next(m, blk)
      m1 == Wr(m, next_b, free_size)
      m2 == SetFtr(m1, next_b, free_size)
      m3 == mark_block_free(m2, next_b)
  IN  Res(AddRegionField(m3, next_b, OffNFree, 1), next_b)

\* split, the split is made: the prefix
split_prefix(m, blk, size) ==
  LET m1 == Wr(m, blk, size)
      m2 == SetFtr(m1, blk, size)
  IN  mark_block_used(m2, blk)

\* split(blk, size): [m, v], v the free suffix or NULL
split(m, blk, size0) ==
  LET size == U(size0 + RESERVE_CAPACITY)
      m1 == Acc(m, blk)
      free_size == U(block_size(m, blk) - size)
  IN  IF m1.st # "ok" THEN Res(m1, NULL)
      ELSE IF U(block_size(m, blk) - size) < m.config.min_split_size
      THEN Res(m, NULL)
      ELSE split_suffix(split_prefix(m, blk, size), blk, free_size)

\* split_to_root, no split was made: used leaves the list
split_to_root_unlink(m, reg, used, used_next, used_prev) ==
  LET m1 == IF used_next # 0 THEN Wr(m, prev_ptr(used_next), used_prev) ELSE m
      m2 == IF used_prev # 0 THEN Wr(m1, next_ptr(used_prev), used_next) ELSE m1
      m3 == Acc(m2, U(reg + OffBlockList))
  IN  IF m3.st # "ok" THEN m3
      ELSE IF RField(m2, reg, OffBlockList) = used
      THEN WrField(m2, reg, OffBlockList, used_next)
      ELSE m2

\* split_to_root: if (to_region(used)->block_list == used)
\* { *free_prev_ptr = 0; to_region(used)->block_list = free; }
split_to_root_head(m, reg, used, free) ==
  LET m1 == Acc(m, U(reg + OffBlockList))
  IN  IF m1.st # "ok" THEN m1
      ELSE IF RField(m, reg, OffBlockList) = used
      THEN WrField(Wr(m, prev_ptr(free), 0), reg, OffBlockList, free)
      ELSE m

\* split_to_root, a split was made: free takes the place of used
split_to_root_replace(m, reg, used, free, used_next, used_prev) ==
  LET m1 == Wr(m, next_ptr(free), used_next)
      m2 == IF used_next # 0 THEN Wr(m1, prev_ptr(used_next), free) ELSE m1
      m3 == split_to_root_head(m2, reg, used, free)
      m4 == Wr(m3, prev_ptr(free), used_prev)
  IN  IF used_prev # 0 THEN Wr(m4, next_ptr(used_prev), free) ELSE m4

split_to_root(m, used, free) ==
  LET m1 == Acc(m, next_ptr(used))
      m2 == Acc(m1, prev_ptr(used))
      used_next == get_next_free(m, used)
      used_prev == get_prev_free(m, used)
      reg == to_region(m, used)
  IN  IF m2.st # "ok" THEN m2
      ELSE IF free = NULL
      THEN split_to_root_unlink(m, reg, used, used_next, used_prev)
      ELSE split_to_root_replace(m, reg, used, free, used_next, used_prev)

\* count_free(block_list): [m, v]
RECURSIVE count_free_from(_, _, _, _)
count_free_from(m, block, n, seen) ==
  LET m1 == Acc(m, next_ptr(block))
  IN  IF m.st # "ok" \/ block = 0 THEN Res(m, n)
      ELSE IF block \in seen THEN Res(Die(m, "hang"), n)
      ELSE IF m1.st # "ok" THEN Res(m1, n)
      ELSE count_free_from(m, get_next_free(m, block), n + 1, seen \cup {block})

count_free(m, block_list) == count_free_from(m, block_list, 0, {})

\* ------------------------------------------------------------------------
\* The public calls.  Each yields [m, v]: the machine after the call and
\* the value returned.
\* ------------------------------------------------------------------------

\* GET_CONFIG_VAR: the default, or the value of the environment variable
\* when it is set (an unset variable is -1 in m.env)
GetConfigVar(dflt, envval) == IF envval = -1 THEN dflt ELSE envval

lynx_alloc_init(m) ==
  LET c == [region_size |-> GetConfigVar(DEFAULT_REGION_SIZE, m.env.region_size),
            max_block_size |-> GetConfigVar(MAX_BLOCK_ALLOC, m.env.max_block_size),
            reserve_capacity |-> GetConfigVar(RESERVE_CAPACITY, m.env.reserve_capacity),
            min_split_size |-> GetConfigVar(MIN_SPLIT_SIZE, m.env.min_split_size),
            scribble_char |-> GetConfigVar(DEFAULT_SCRIBBLE_CHAR, m.env.scribble_char)]
  IN  IF m.st # "ok" THEN m
      ELSE IF c.region_size % 4096 # 0 THEN Die(m, "abort_init")
      ELSE IF c.reserve_capacity % 16 # 0 THEN Die(m, "abort_init")
      ELSE [m EXCEPT !.config = c,
                     !.counters = [x \in DOMAIN m.counters |-> 0],
                     !.malloc_init = 1]

\* lynx_malloc without next->prev = root
malloc_wire_oneway(m, next) == WrField(m, m.root, OffNext, next)

\* lynx_malloc: next->prev = root; root->next = next;
malloc_wire(m, next) ==
  WrField(WrField(m, next, OffPrev, m.root), m.root, OffNext, next)

\* lynx_malloc, region_create() was called with next the old root:
\* [m, v], v = FALSE when lynx_malloc returns NULL here
malloc_grown(rc, next) ==
  LET m1 == SetRoot(rc.m, rc.v)
      m2 == IF next = NULL THEN m1 ELSE malloc_wire(m1, next)
  IN  Res(m2, m2.st = "ok" /\ m2.root # NULL)

\* the part of lynx_malloc that grows the region list
malloc_grow(m) == malloc_grown(region_create(m), m.root)

\* lynx_malloc: assert(count1 == count2); return block_data(next_free_blk)
malloc_assert(cf, count1, next_free_blk) ==
  IF cf.m.st # "ok" THEN Res(cf.m, NULL)
  ELSE IF count1 # cf.v THEN Res(Die(cf.m, "abort_count"), NULL)
  ELSE Res(cf.m, block_data(next_free_blk))

\* lynx_malloc, the accounting is done: the count of the free list
malloc_count(m, next_free_blk) ==
  LET reg == to_region(m, next_free_blk)
  IN  malloc_assert(count_free(m, RField(m, reg, OffBlockList)),
                    RField(m, reg, OffNFree), next_free_blk)

\* lynx_malloc, the split was tried and gave sp
malloc_link(sp, next_free_blk) ==
  LET m1 == split_to_root(sp.m, next_free_blk, sp.v)
      m2 == mark_block_used(m1, next_free_blk)
      m3 == AddRegionField(m2, next_free_blk, OffNFree, -1)
      m4 == AddRegionField(m3, next_free_blk, OffNUsed, 1)
      m5 == Bump(m4, "total_allocs")
  IN  malloc_count(m5, next_free_blk)

\* lynx_malloc, the footer was written: split if the block is bigger
malloc_split(m, next_free_blk, size) ==
  IF m.st = "ok" /\ block_size(m, next_free_blk) > size
  THEN split(m, next_free_blk, size)
  ELSE Res(m, NULL)

\* lynx_malloc from the block found on: [m, v]
malloc_take(m, next_free_blk, size) ==
  LET m1 == Acc(m, next_free_blk)
      m2 == SetFtr(m1, next_free_blk, block_size(m, next_free_blk))
  IN  malloc_link(malloc_split(m2, next_free_blk, size), next_free_blk)

\* lynx_malloc, the second search was made
malloc_retry(f2, size) == malloc_take(f2.m, f2.v, size)

\* lynx_malloc, no block was found and the region list was grown
malloc_regrown(g, size) ==
  IF g.m.st # "ok" \/ ~g.v THEN Res(g.m, NULL)
  ELSE malloc_retry(next_free(g.m, size), size)

\* lynx_malloc making a region whatever the first search found
malloc_found_growing(f1, size) ==
  IF f1.m.st # "ok" THEN Res(f1.m, NULL)
  ELSE malloc_regrown(malloc_grow(f1.m), size)

\* lynx_malloc, the first search was made
malloc_found(f1, size) ==
  IF f1.m.st # "ok" THEN Res(f1.m, NULL)
  ELSE IF f1.v # NULL THEN malloc_take(f1.m, f1.v, size)
  ELSE malloc_regrown(malloc_grow(f1.m), size)

\* lynx_malloc: return block_data(create_large_block(size))
malloc_large(lb) == Res(lb.m, block_data(lb.v))

\* lynx_malloc after the one-time initialization
malloc_body(m, size) ==
  IF m.st # "ok" THEN Res(m, NULL)
  ELSE IF size = 0 THEN Res(m, NULL)
  ELSE IF size > m.config.max_block_size
  THEN malloc_large(create_large_block(Bump(m, "large_block_allocs"), size))
  ELSE malloc_found(next_free(m, next16(size)), next16(size))

lynx_malloc(m, size) ==
  malloc_body(IF m.malloc_init = 0 THEN lynx_alloc_init(m) ELSE m, size)

\* lynx_free: the asserts after merge, and clean_regions
free_assert(cf, count1, blk) ==
  IF cf.m.st # "ok" THEN cf.m
  ELSE IF count1 # cf.v THEN Die(cf.m, "abort_count")
  ELSE IF blk = 0 THEN Die(cf.m, "abort_blk")
  ELSE clean_regions(cf.m, blk)

\* lynx_free, the merge was made
free_merged(mg) ==
  LET reg == to_region(mg.m, mg.v)
      m1 == Acc(mg.m, U(reg + OffNFree))
  IN  free_assert(count_free(m1, RField(mg.m, reg, OffBlockList)),
                  RField(mg.m, reg, OffNFree), mg.v)

\* lynx_free of a small block
free_small(m, blk) ==
  LET m1 == mark_block_free(m, blk)
      m2 == Wr(m1, block_data(blk), 0)
      m3 == Wr(m2, U(block_data(blk) + Word), 0)
      m4 == AddRegionField(m3, blk, OffNFree, 1)
      m5 == AddRegionField(m4, blk, OffNUsed, -1)
      m6 == Bump(m5, "total_frees")
  IN  free_merged(merge(m6, blk))

lynx_free(m, ptr) ==
  LET blk == to_block(ptr)
      m1 == Acc(m, blk)
  IN  IF m.st # "ok" \/ ptr = NULL THEN m
      ELSE IF m1.st # "ok" THEN m1
      ELSE IF is_large(m, blk)
      THEN free_large_block(Bump(m, "large_block_frees"), blk)
      ELSE IF ~is_used(m, blk) THEN Die(m, "abort_used")
      ELSE free_small(m, blk)

\* the low k bytes of a word, and the word without them (little endian;
\* the words of the model are narrower than four bytes)
LowBytes(v, k) == IF k >= 4 THEN v ELSE v % Pow2(8 * k)

HighBytes(v, k) == v - LowBytes(v, k)

\* the word addresses of the whole words of [addr, addr + len)
WordsOf(addr, len) == { addr + Word * i : i \in 0..((len \div Word) - 1) }

\* touching every byte of [addr, addr + len)
AccRange(m, addr, len) ==
  IF m.st # "ok" \/ len = 0 THEN m
  ELSE IF ~(PagesOf(addr, len) \subseteq m.pages) THEN Die(m, "segv")
  ELSE IF addr % Word # 0 THEN Die(m, "wild")
  ELSE m

\* the low k bytes of the word at a become those of v
WrLow(m, a, v, k) ==
  IF m.st # "ok" \/ k = 0 THEN m
  ELSE [m EXCEPT !.mem = Store(@, a, HighBytes(Rd(m, a), k) + LowBytes(v, k))]

\* the whole words ws become what from gives
WrWords(m, ws, from(_)) ==
  LET keep == { x \in DOMAIN m.mem : x \notin ws }
      new == { x \in ws : from(x) # 0 }
  IN  IF m.st # "ok" THEN m
      ELSE [m EXCEPT !.mem = [x \in keep \cup new |->
                                IF x \in ws THEN from(x) ELSE m.mem[x]]]

\* memset(addr, 0, len)
memset0(m, addr, len) ==
  LET m1 == AccRange(m, addr, len)
      m2 == WrWords(m1, WordsOf(addr, len), LAMBDA x : 0)
  IN  WrLow(m2, addr + Word * (len \div Word), 0, len % Word)

\* memcpy(dst, src, len)
memcpy(m, dst, src, len) ==
  LET m1 == AccRange(m, src, len)
      m2 == AccRange(m1, dst, len)
      m3 == WrWords(m2, WordsOf(dst, len), LAMBDA x : Rd(m, src + (x - dst)))
      off == Word * (len \div Word)
  IN  WrLow(m3, dst + off, Rd(m, src + off), len % Word)

\* lynx_calloc, the block was asked for
calloc_zero(r, len) ==
  LET m1 == memset0(r.m, r.v, len)
  IN  IF m1.st # "ok" THEN Res(m1, NULL) ELSE Res(m1, r.v)

lynx_calloc(m, nmemb, size) ==
  IF nmemb = 0 \/ size = 0 THEN Res(m, NULL)
  ELSE calloc_zero(lynx_malloc(m, Mul(nmemb, size)), Mul(nmemb, size))

\* lynx_realloc, the copy was made and the old block freed
realloc_done(m, new_ptr) ==
  IF m.st # "ok" THEN Res(m, NULL) ELSE Res(m, new_ptr)

\* lynx_realloc with the old block freed before the copy is made
realloc_move_freed(r, ptr, size) ==
  LET blk == to_block(ptr)
      cp_size == MIN(U(block_size(r.m, blk) - 16), size)
      m1 == lynx_free(r.m, ptr)
  IN  IF r.m.st # "ok" \/ r.v = NULL THEN Res(r.m, NULL)
      ELSE realloc_done(memcpy(m1, r.v, ptr, cp_size), r.v)

\* lynx_realloc, the new block was asked for
realloc_move(r, ptr, size) ==
  LET blk == to_block(ptr)
      cp_size == MIN(U(block_size(r.m, blk) - 16), size)
      m1 == memcpy(r.m, r.v, ptr, cp_size)
  IN  IF r.m.st # "ok" \/ r.v = NULL THEN Res(r.m, NULL)
      ELSE realloc_done(lynx_free(m1, ptr), r.v)

\* lynx_realloc without the test that lets a block stay where it is
lynx_realloc_moving(m, ptr, size) ==
  LET m1 == Acc(m, to_block(ptr))
  IN  IF ptr = NULL THEN lynx_malloc(m, size)
      ELSE IF size = 0 THEN Res(lynx_free(m, ptr), NULL)
      ELSE IF m1.st # "ok" THEN Res(m1, NULL)
      ELSE realloc_move(lynx_malloc(m, size), ptr, size)

lynx_realloc(m, ptr, size) ==
  LET blk == to_block(ptr)
      m1 == Acc(m, blk)
  IN  IF ptr = NULL THEN lynx_malloc(m, size)
      ELSE IF size = 0 THEN Res(lynx_free(m, ptr), NULL)
      ELSE IF m1.st # "ok" THEN Res(m1, NULL)
      ELSE IF /\ U(block_size(m, blk) - 16) > size
              /\ ~(is_large(m, blk) /\ U(size + 32) < m.config.max_block_size)
      THEN Res(m, ptr)
      ELSE realloc_move(lynx_malloc(m, size), ptr, size)

lynx_reallocarray(m, ptr, nmemb, size) ==
  IF is_overflow(nmemb, size, Mul(nmemb, size))
  THEN Res([m EXCEPT !.errno = ENOMEM], NULL)
  ELSE lynx_realloc(m, ptr, Mul(nmemb, size))

\* ------------------------------------------------------------------------
\* The caller
\* ------------------------------------------------------------------------

\* what the caller stores in a block it was given for n bytes: the first
\* byte or word, the second word, and the last whole word
FillFirst == 171
FillSecond == 172
FillLast == 173

user_fill(m, p, n) ==
  LET m1 == AccRange(m, p, n)
      m2 == IF n >= Word THEN Wr(m1, p, FillFirst) ELSE WrLow(m1, p, FillFirst, n)
      m3 == IF n >= 2 * Word THEN Wr(m2, p + Word, FillSecond) ELSE m2
  IN  IF n >= 3 * Word
      THEN Wr(m3, p + Word * ((n \div Word) - 1), FillLast) ELSE m3

\* ------------------------------------------------------------------------
\* State
\* ------------------------------------------------------------------------

VARIABLES
  mem,          \* memory: word address -> word, zero words left out
  pages,        \* the mapped pages
  root,         \* head of the region list
  config,       \* struct malloc_config
  malloc_init,  \* whether lynx_alloc_init() has run
  counters,     \* struct malloc_counters (the tallies of events)
  errno,
  st,           \* "ok", or how the process ended
  env,          \* the environment variables read by lynx_alloc_init()
  live,         \* caller's pointers: pointer -> the size it was asked for
  ret,          \* what the last call returned
  last          \* the last call: [op, p, n, k]

vars == <<mem, pages, root, config, malloc_init, counters, errno, st, env,
          live, ret, last>>

EmptyMem == [x \in {} |-> 0]

CounterNames == {"region_allocs", "region_frees", "total_allocs", "total_frees",
                 "large_block_allocs", "large_block_frees"}

\* the environments: every variable unset, or MIN_SPLIT_SIZE set to 16
Envs == { [region_size |-> -1, max_block_size |-> -1, reserve_capacity |-> -1,
           min_split_size |-> s, scribble_char |-> -1] : s \in {-1, 16} }

\* the requests of the caller
MallocSizes == {0, 1, 16, 2000, 4000}
ReallocSizes == {0, 40, 4000}
CallocArgs == {<<0, 8>>, <<2, 8>>, <<1, 4000>>}
ArrayArgs == {<<5, 8>>, <<Pow2(SizeBits - 1), 2>>, <<SIZE_MAX, 2>>}

\* the answers of the kernel to mmap: MAP_FAILED (0 here) or a page address
KernelAnswers == {0} \cup { p * PageSize : p \in 1..NPages }

\* the machine the state is
Cur(kq) ==
  [mem |-> mem, pages |-> pages, root |-> root, config |-> config,
   malloc_init |-> malloc_init, counters |-> counters, errno |-> errno,
   st |-> st, env |-> env, kq |-> kq, kok |-> TRUE, starved |-> FALSE,
   mapfail |-> FALSE, npages |-> NPages]

Init ==
  /\ mem = EmptyMem
  /\ pages = {}
  /\ root = NULL
  /\ config = [region_size |-> 0, max_block_size |-> 0, reserve_capacity |-> 0,
               min_split_size |-> 0, scribble_char |-> 0]
  /\ malloc_init = 0
  /\ counters = [x \in CounterNames |-> 0]
  /\ errno = 0
  /\ st = "ok"
  /\ env \in Envs
  /\ live = EmptyMem
  /\ ret = NULL
  /\ last = [op |-> "none", p |-> 0, n |-> 0, k |-> 0, mapfail |-> FALSE]

\* the state after a call that ended as r = [m, v]; a process that died
\* keeps the memory it had
Commit(r, call, newlive) ==
  LET ok == r.m.st = "ok"
  IN  /\ st' = r.m.st
      /\ mem' = IF ok THEN r.m.mem ELSE mem
      /\ pages' = IF ok THEN r.m.pages ELSE pages
      /\ root' = IF ok THEN r.m.root ELSE root
      /\ config' = IF ok THEN r.m.config ELSE config
      /\ malloc_init' = IF ok THEN r.m.malloc_init ELSE malloc_init
      /\ counters' = IF ok THEN r.m.counters ELSE counters
      /\ errno' = IF ok THEN r.m.errno ELSE errno
      /\ ret' = IF ok THEN r.v ELSE NULL
      /\ live' = IF ok THEN newlive ELSE live
      /\ last' = [call EXCEPT !.mapfail = r.m.mapfail]
      /\ env' = env

Without(f, p) == [x \in (DOMAIN f) \ {p} |-> f[x]]

With(f, p, n) == [x \in (DOMAIN f) \cup {p} |-> IF x = p THEN n ELSE f[x]]

NoCall == [op |-> "none", p |-> 0, n |-> 0, k |-> 0, mapfail |-> FALSE]

\* the caller is between two calls
CanCall == st = "ok" /\ last = NoCall

CanAlloc ==
  /\ CanCall
  /\ Cardinality(DOMAIN live) < MaxLive
  /\ counters.total_allocs + counters.large_block_allocs < MaxAllocs

\* the outcomes of a call F, one for each way the kernel can answer the
\* mmap calls it makes
Outcomes(F(_)) ==
  LET r0 == F(<<>>)
      Two(k1) == { r2 \in { F(<<k1, k2>>) : k2 \in KernelAnswers } :
                     ~r2.m.starved /\ r2.m.kok }
      One(k1) == LET r1 == F(<<k1>>)
                 IN  IF r1.m.starved THEN Two(k1)
                     ELSE IF r1.m.kok THEN {r1} ELSE {}
  IN  IF ~r0.m.starved THEN {r0}
      ELSE UNION { One(k1) : k1 \in KernelAnswers }

\* ------------------------------------------------------------------------
\* Actions: one per public call, and the caller's writes
\* ------------------------------------------------------------------------

Call(o, p, n, k) == [op |-> o, p |-> p, n |-> n, k |-> k, mapfail |-> FALSE]

LiveAfterAlloc(v, n) == IF v = NULL THEN live ELSE With(live, v, n)

LiveAfterRealloc(p, v, n) ==
  IF p = NULL THEN LiveAfterAlloc(v, n)
  ELSE IF n = 0 THEN Without(live, p)
  ELSE IF v = NULL THEN live
  ELSE With(Without(live, p), v, n)

Malloc(n) ==
  /\ CanAlloc
  /\ \E r \in Outcomes(LAMBDA kq : lynx_malloc(Cur(kq), n)) :
       Commit(r, Call("malloc", NULL, n, 0), LiveAfterAlloc(r.v, n))

Free(p) ==
  /\ CanCall
  /\ LET m == lynx_free(Cur(<<>>), p)
     IN  Commit([m |-> m, v |-> NULL], Call("free", p, 0, 0), Without(live, p))

Calloc(n, k) ==
  /\ CanAlloc
  /\ \E r \in Outcomes(LAMBDA kq : lynx_calloc(Cur(kq), n, k)) :
       Commit(r, Call("calloc", NULL, n, k), LiveAfterAlloc(r.v, Mul(n, k)))

Realloc(p, n) ==
  /\ CanCall
  /\ n # 0 => CanAlloc
  /\ \E r \in Outcomes(LAMBDA kq : lynx_realloc(Cur(kq), p, n)) :
       Commit(r, Call("realloc", p, n, 0), LiveAfterRealloc(p, r.v, n))

ReallocArray(p, n, k) ==
  /\ CanCall
  /\ n # 0 => CanAlloc
  /\ \E r \in Outcomes(LAMBDA kq : lynx_reallocarray(Cur(kq), p, n, k)) :
       Commit(r, Call("reallocarray", p, n, k),
              IF is_overflow(n, k, Mul(n, k)) THEN live
              ELSE LiveAfterRealloc(p, r.v, Mul(n, k)))

\* the caller takes the result of the call and goes on; it clears errno
\* for its next call
Return ==
  /\ st = "ok"
  /\ last # NoCall
  /\ last' = NoCall
  /\ ret' = NULL
  /\ errno' = 0
  /\ UNCHANGED <<mem, pages, root, config, malloc_init, counters, st, env, live>>

\* the caller takes the block it was given and stores into it
UserWrite(p) ==
  /\ st = "ok"
  /\ p = ret
  /\ last.op \in {"malloc", "calloc", "realloc", "reallocarray"}
  /\ LET m == user_fill(Cur(<<>>), p, live[p])
     IN  /\ m.st = "ok"
         /\ mem' = m.mem
         /\ mem' # mem
         /\ last' = NoCall
         /\ ret' = NULL
         /\ errno' = 0
         /\ UNCHANGED <<pages, root, config, malloc_init, counters, st, env, live>>

Next ==
  \/ \E n \in MallocSizes : Malloc(n)
  \/ \E p \in (DOMAIN live) \cup {NULL} : Free(p)
  \/ \E a \in CallocArgs : Calloc(a[1], a[2])
  \/ \E p \in (DOMAIN live) \cup {NULL}, n \in ReallocSizes : Realloc(p, n)
  \/ \E p \in (DOMAIN live) \cup {NULL}, a \in ArrayArgs : ReallocArray(p, a[1], a[2])
  \/ \E p \in DOMAIN live : UserWrite(p)
  \/ Return

Spec == Init /\ [][Next]_vars

\* ------------------------------------------------------------------------
\* Reading the heap: the region list, the blocks of a region in address
\* order, and its free list
\* ------------------------------------------------------------------------

\* the heap as it stands between two steps
Heap == Cur(<<>>)

\* the regions reached from r by their next links
RECURSIVE RegionsFrom(_, _, _)
RegionsFrom(m, r, seen) ==
  IF r = NULL \/ r \in seen \/ ~Mapped(m, r) THEN seen
  ELSE RegionsFrom(m, RField(m, r, OffNext), seen \cup {r})

Regions(m) == RegionsFrom(m, m.root, {})

\* the end of the blocks of region R: the header of its final block
RegionEnd(m, R) == R + m.config.region_size - Word

\* the blocks from b on, in address order, up to the final block
RECURSIVE BlocksFrom(_, _, _, _)
BlocksFrom(m, b, end, acc) ==
  IF b >= end \/ block_size(m, b) = 0 THEN acc
  ELSE BlocksFrom(m, b + block_size(m, b), end, acc \cup {b})

\* the initial block of region R, and the blocks between it and the final one
Sentinel(m, R) == RField(m, R, OffStart)

Blocks(m, R) == BlocksFrom(m, block_next(m, Sentinel(m, R)), RegionEnd(m, R), {})

\* the blocks reached from b by their next-free links
RECURSIVE ListFrom(_, _, _)
ListFrom(m, b, seen) ==
  IF b = NULL \/ b \in seen \/ ~Mapped(m, b) THEN seen
  ELSE ListFrom(m, get_next_free(m, b), seen \cup {b})

FreeList(m, R) == ListFrom(m, RField(m, R, OffBlockList), {})

UsedBlocks(m, R) == { b \in Blocks(m, R) : is_used(m, b) }

\* the payload capacity of the block of pointer p
Capacity(m, p) == block_size(m, to_block(p)) - 2 * Word

\* p is a pointer of the caller into a block of a region
SmallLive(m, p) ==
  /\ p \in DOMAIN live
  /\ Mapped(m, p)
  /\ ~is_large(m, to_block(p))

\* ------------------------------------------------------------------------
\* Properties
\* ------------------------------------------------------------------------

\* the call just made was lynx_malloc(n) for a small n, and no mmap failed
SmallMallocMapped ==
  /\ last.op = "malloc"
  /\ 0 < last.n
  /\ last.n <= config.max_block_size
  /\ ~last.mapfail

CountsMatch(m, R) ==
  /\ RField(m, R, OffNFree) = Cardinality(FreeList(m, R))
  /\ RField(m, R, OffNUsed) = Cardinality(UsedBlocks(m, R))

\* C2: for every region on the region list n_free is the number of blocks
\* on its free list and n_used the number of used blocks between its initial
\* and final block; assert(count1 == count2) of lynx_malloc and lynx_free
\* never fails.
C2_CountsMatchBlocks ==
  /\ st # "abort_count"
  /\ st = "ok" => \A R \in Regions(Heap) : CountsMatch(Heap, R)

C2_Witness ==
  /\ st = "ok"
  /\ last.op = "free"
  /\ \E R \in Regions(Heap) :
       /\ RField(Heap, R, OffNFree) = 2
       /\ RField(Heap, R, OffNUsed) = 1
       /\ CountsMatch(Heap, R)

\* the blocks before and after free block b in address order are used
NeighboursUsed(m, R, b) ==
  /\ is_used(m, block_next(m, b))
  /\ \A a \in Blocks(m, R) \cup {Sentinel(m, R)} :
       block_next(m, a) = b => is_used(m, a)

\* C3: in every region, the block before and the block after a free block
\* in address order are used blocks (or the initial and the final block).
C3_NoAdjacentFree ==
  st = "ok" =>
    \A R \in Regions(Heap) : \A b \in Blocks(Heap, R) :
      is_free(Heap, b) => NeighboursUsed(Heap, R, b)

C3_Witness ==
  /\ st = "ok"
  /\ last.op = "free"
  /\ counters.total_frees = 2
  /\ \E R \in Regions(Heap) :
       /\ Cardinality(Blocks(Heap, R)) = 2
       /\ \E b \in Blocks(Heap, R) :
            /\ is_free(Heap, b)
            /\ block_size(Heap, b) > 48
            /\ NeighboursUsed(Heap, R, b)

\* C4: every block between the initial and the final block of a region has
\* a footer equal to its header, and the block of every pointer the caller
\* holds into a region is marked used in both.
C4_HeaderIsFooter ==
  st = "ok" =>
    /\ \A R \in Regions(Heap) : \A b \in Blocks(Heap, R) :
         Rd(Heap, b) = Rd(Heap, block_ftr(Heap, b))
    /\ \A p \in DOMAIN live :
         SmallLive(Heap, p) =>
           /\ is_used(Heap, to_block(p))
           /\ is_used(Heap, block_ftr(Heap, to_block(p)))

C4_Witness ==
  /\ st = "ok"
  /\ Cardinality({ p \in DOMAIN live : SmallLive(Heap, p) }) = 2
  /\ counters.total_frees = 1
  /\ \E R \in Regions(Heap) :
       /\ Cardinality(Blocks(Heap, R)) = 3
       /\ \A b \in Blocks(Heap, R) : Rd(Heap, b) = Rd(Heap, block_ftr(Heap, b))
  /\ \A p \in DOMAIN live :
       /\ is_used(Heap, to_block(p))
       /\ is_used(Heap, block_ftr(Heap, to_block(p)))

\* the region of pointer p
RegionOf(m, p) == to_region(m, to_block(p))

\* lynx_free(p) is about to free the last used block of a listed region
EmptiesRegion(p) ==
  /\ SmallLive(Heap, p)
  /\ RegionOf(Heap, p) \in Regions(Heap)
  /\ RField(Heap, RegionOf(Heap, p), OffNUsed) = 1

\* no region on the list is without used blocks
NoEmptyRegion ==
  st = "ok" => \A R \in Regions(Heap) : RField(Heap, R, OffNUsed) # 0

\* the region R emptied by this step is gone when the step ends
Reaped(R) ==
  /\ st' = "ok"
  /\ PageOf(R) \notin pages'
  /\ R \notin Regions(Heap)'
  /\ counters'.region_frees = counters.region_frees + 1
  /\ root' = IF root = R THEN RField(Heap, R, OffNext) ELSE root

FreeReaps ==
  /\ (last'.op = "free" /\ EmptiesRegion(last'.p)) =>
        Reaped(RegionOf(Heap, last'.p))
  /\ NoEmptyRegion'

SmallMallocUnmapped ==
  /\ last.op = "malloc"
  /\ 0 < last.n
  /\ last.n <= MAX_BLOCK_ALLOC
  /\ last.mapfail

\* C6: lynx_malloc(n) for a small n returns NULL when no free block fits and
\* the mmap of region_create fails, whether root is NULL or not.
C6_MallocNullWhenRegionFails ==
  SmallMallocUnmapped => (st = "ok" /\ ret = NULL)

\* the part of C6 the program keeps: with no region on the list
C6_Witness ==
  /\ SmallMallocUnmapped
  /\ root = NULL
  /\ st = "ok"
  /\ ret = NULL

\* C7: lynx_malloc(n) for n > max_block_size returns NULL when the mmap of
\* create_large_block fails.
C7_LargeMallocNullWhenMmapFails ==
  (last.op = "malloc" /\ last.n > MAX_BLOCK_ALLOC /\ last.mapfail) =>
    (st = "ok" /\ ret = NULL)

\* C8: lynx_calloc(n, k) with n and k not zero returns NULL when its
\* lynx_malloc finds no block and mmap fails; it does not store through the
\* pointer it did not get.
C8_CallocNullWhenMallocFails ==
  (last.op = "calloc" /\ last.n # 0 /\ last.k # 0 /\ last.mapfail) =>
    (st = "ok" /\ ret = NULL)

\* ------------------------------------------------------------------------
\* lynx_reallocarray over the pairs at the edges of the word
\* ------------------------------------------------------------------------

ArrayValues ==
  {0, 1, Pow2(SizeBits \div 2), Pow2(SizeBits - SizeBits \div 2),
   Pow2(SizeBits - 1), SIZE_MAX}

ArrayMallocSizes == {16}

NextArray ==
  \/ \E n \in ArrayMallocSizes : Malloc(n)
  \/ \E p \in (DOMAIN live) \cup {NULL}, n \in ArrayValues, k \in ArrayValues :
       ReallocArray(p, n, k)
  \/ Return

SpecArray == Init /\ [][NextArray]_vars

\* the product of n and k as numbers does not fit the word
TrueOverflow(n, k) == n # 0 /\ k > SIZE_MAX \div n

\* the step ends as the call r of lynx_realloc ended
EndsAs(r) ==
  /\ st' = r.m.st
  /\ r.m.st = "ok" =>
       /\ ret' = r.v
       /\ mem' = r.m.mem
       /\ pages' = r.m.pages
       /\ root' = r.m.root
       /\ config' = r.m.config
       /\ malloc_init' = r.m.malloc_init
       /\ counters' = r.m.counters
       /\ errno' = r.m.errno

ArrayStep(p, n, k) ==
  IF TrueOverflow(n, k)
  THEN /\ st' = "ok"
       /\ ret' = NULL
       /\ errno' = ENOMEM
       /\ UNCHANGED <<mem, pages, root, config, malloc_init, counters, live>>
  ELSE \E r \in Outcomes(LAMBDA kq : lynx_realloc(Cur(kq), p, n * k)) : EndsAs(r)

\* C9: lynx_reallocarray(p, n, k) returns NULL with errno = ENOMEM, maps
\* nothing and changes nothing else exactly when n * k as numbers is above
\* SIZE_MAX; in every other case it ends as lynx_realloc(p, n * k) ends.
C9_ReallocArrayOverflow ==
  [][last'.op = "reallocarray" => ArrayStep(last'.p, last'.n, last'.k)]_vars

\* an overflow whose wrapped product is a size lynx_realloc would serve
C9_Witness ==
  /\ last.op = "reallocarray"
  /\ last.p # NULL
  /\ last.p \in DOMAIN live
  /\ TrueOverflow(last.n, last.k)
  /\ Mul(last.n, last.k) > 0
  /\ Mul(last.n, last.k) < MAX_BLOCK_ALLOC
  /\ ret = NULL
  /\ errno = ENOMEM

\* ------------------------------------------------------------------------
\* lynx_realloc keeps the payload
\* ------------------------------------------------------------------------

\* word i of the first c bytes at q in m2 is word i at p in m1
KeptWord(m1, p, m2, q, c, i) ==
  LowBytes(Rd(m2, q + Word * i), MIN(Word, c - Word * i)) =
    LowBytes(Rd(m1, p + Word * i), MIN(Word, c - Word * i))

Kept(m1, p, m2, q, c) ==
  \A i \in 0..((c - 1) \div Word) : KeptWord(m1, p, m2, q, c, i)

ReallocKeeps ==
  (/\ last'.op = "realloc"
   /\ last'.p \in DOMAIN live
   /\ last'.n > 0
   /\ st' = "ok"
   /\ ret' # NULL) =>
     Kept(Heap, last'.p, Heap', ret', MIN(Capacity(Heap, last'.p), last'.n))

\* C10: when lynx_realloc(p, n) with n > 0 returns q # NULL for a block p
\* of the caller, the first min(capacity of p, n) bytes at q are the bytes
\* that were at p before the call.
C10_ReallocKeepsPayload == [][ReallocKeeps]_vars

\* a block the caller had filled was moved
C10_Witness ==
  /\ st = "ok"
  /\ last.op = "realloc"
  /\ last.p # NULL
  /\ last.n = 40
  /\ ret # NULL
  /\ ret # last.p
  /\ Rd(Heap, ret) = FillFirst
  /\ Rd(Heap, ret + Word) = FillSecond

\* ------------------------------------------------------------------------
\* lynx_realloc that stays in place
\* ------------------------------------------------------------------------

\* lynx_realloc(p, n) is called on a block of a region that holds more
\* than n bytes
ShrinksInPlace(p, n) ==
  /\ SmallLive(Heap, p)
  /\ n > 0
  /\ Capacity(Heap, p) > n

ReallocInPlace ==
  (last'.op = "realloc" /\ ShrinksInPlace(last'.p, last'.n)) =>
    /\ st' = "ok"
    /\ ret' = last'.p
    /\ UNCHANGED <<mem, pages, root, config, malloc_init, counters, errno>>

\* C11: lynx_realloc(p, n) with n > 0 on a block of a region whose capacity
\* is above n returns p and changes no header, free list, region count,
\* region list or mapping.
C11_ReallocInPlaceChangesNothing == [][ReallocInPlace]_vars

C11_Witness ==
  /\ st = "ok"
  /\ last.op = "realloc"
  /\ last.n = 40
  /\ ret = last.p
  /\ SmallLive(Heap, ret)
  /\ live[ret] = 40
  /\ Capacity(Heap, ret) > 2000
  /\ Rd(Heap, ret) = FillFirst

\* ------------------------------------------------------------------------
\* p1 = lynx_malloc(n); lynx_free(p1); p2 = lynx_malloc(n)
\* ------------------------------------------------------------------------

\* machine m at the start of a call, with kq the answers of the kernel
At(m, kq) ==
  [m EXCEPT !.kq = kq, !.kok = TRUE, !.starved = FALSE, !.mapfail = FALSE]

ReuseSizes == {16, 2000}

\* the ways lynx_malloc(n) hands out a block in machine m
Handed(m, n) ==
  { r \in Outcomes(LAMBDA kq : lynx_malloc(At(m, kq), n)) :
      r.m.st = "ok" /\ r.v # NULL /\ ~r.m.mapfail }

\* the ways the second lynx_malloc(n) ends, r1 the way the first one did
Again(r1, n) ==
  { r \in Outcomes(LAMBDA kq : lynx_malloc(At(lynx_free(r1.m, r1.v), kq), n)) :
      ~r.m.mapfail }

\* lynx_free(r1.v) gives the region of r1.v back to the kernel
Reclaims(r1) == RField(r1.m, RegionOf(r1.m, r1.v), OffNUsed) = 1

BetweenCalls == st = "ok" /\ last = NoCall

Overlap(a, n, b, k) == a < b + k /\ b < a + n

\* the words that are not payload in region R: the region record, the
\* initial block, the header of the final block, and the header and footer
\* of every block between them
RecordWords(R) == { R + i * Word : i \in 0..(RegionRecSize \div Word - 1) }

BlockWords(m, R) ==
  {Sentinel(m, R), Sentinel(m, R) + Word, RegionEnd(m, R)}
    \cup Blocks(m, R)
    \cup { block_ftr(m, b) : b \in Blocks(m, R) }

MetaWords(m) == UNION { RecordWords(R) \cup BlockWords(m, R) : R \in Regions(m) }

\* the payloads of the pointers the caller holds into regions are apart from
\* each other and from every word that is not payload
PayloadsApart(m) ==
  LET ps == { p \in DOMAIN live : SmallLive(m, p) }
  IN  /\ \A p \in ps : \A q \in ps :
           p # q => ~Overlap(p, Capacity(m, p), q, Capacity(m, q))
      /\ \A p \in ps : \A a \in MetaWords(m) :
           ~Overlap(p, Capacity(m, p), a, Word)

\* A caller that asks for small blocks only, in the environments of Envs and
\* with RESERVE_CAPACITY set to 16
MaxSmallAllocs == 4
MaxSmallLive == 4
SmallSizes == {1, 16}

SmallEnvs ==
  Envs \cup { [region_size |-> -1, max_block_size |-> -1, reserve_capacity |-> 16,
               min_split_size |-> -1, scribble_char |-> -1] }

InitSmall ==
  /\ mem = EmptyMem
  /\ pages = {}
  /\ root = NULL
  /\ config = [region_size |-> 0, max_block_size |-> 0, reserve_capacity |-> 0,
               min_split_size |-> 0, scribble_char |-> 0]
  /\ malloc_init = 0
  /\ counters = [x \in CounterNames |-> 0]
  /\ errno = 0
  /\ st = "ok"
  /\ env \in SmallEnvs
  /\ live = EmptyMem
  /\ ret = NULL
  /\ last = NoCall

MallocSmall(n) ==
  /\ CanCall
  /\ Cardinality(DOMAIN live) < MaxSmallLive
  /\ counters.total_allocs < MaxSmallAllocs
  /\ \E r \in Outcomes(LAMBDA kq : lynx_malloc(Cur(kq), n)) :
       Commit(r, Call("malloc", NULL, n, 0), LiveAfterAlloc(r.v, n))

NextSmall ==
  \/ \E n \in SmallSizes : MallocSmall(n)
  \/ \E p \in DOMAIN live : Free(p)
  \/ Return

SpecSmall == InitSmall /\ [][NextSmall]_vars

\* C13: between public calls the payload ranges [p, p + capacity) of the
\* blocks handed out and not yet freed are pairwise disjoint, and none of
\* them overlaps a region record, an initial block, or a header or footer.
C13_PayloadsDisjoint == st = "ok" => PayloadsApart(Heap)

C13_Witness ==
  /\ st = "ok"
  /\ Cardinality({ p \in DOMAIN live : SmallLive(Heap, p) }) = 2
  /\ \E p \in DOMAIN live : Capacity(Heap, p) = 16
  /\ \E p \in DOMAIN live : Capacity(Heap, p) = 32
  /\ counters.total_frees = 1
  /\ PayloadsApart(Heap)

\* the next-free links from b on, in order, as the walk of next_free sees them
RECURSIVE ListSeq(_, _, _)
ListSeq(m, b, acc) ==
  IF b = NULL \/ ~Mapped(m, b) \/ (\E i \in DOMAIN acc : acc[i] = b) THEN acc
  ELSE ListSeq(m, get_next_free(m, b), Append(acc, b))

FreeSeq(m, R) == ListSeq(m, RField(m, R, OffBlockList), <<>>)

\* the free list of region R ends in a null link, its prev links mirror its
\* next links, and it holds the free blocks of R, each once, and nothing else
WellFormedList(m, R) ==
  LET s == FreeSeq(m, R)
      n == Len(s)
  IN  /\ n > 0 => get_prev_free(m, s[1]) = NULL
      /\ n > 0 => get_next_free(m, s[n]) = NULL
      /\ \A i \in 1..(n - 1) : get_prev_free(m, s[i + 1]) = s[i]
      /\ { s[i] : i \in 1..n } = { b \in Blocks(m, R) : is_free(m, b) }

\* C14: after any sequence of calls the free list of every region is a
\* null-terminated doubly linked list (the head's prev is null and
\* x.next.prev = x) that holds exactly the free blocks of the region, each
\* once, no used block and no block of another region.
C14_FreeListWellFormed ==
  st = "ok" => \A R \in Regions(Heap) : WellFormedList(Heap, R)

C14_Witness ==
  /\ st = "ok"
  /\ last.op = "free"
  /\ \E R \in Regions(Heap) :
       /\ Len(FreeSeq(Heap, R)) = 2
       /\ block_size(Heap, FreeSeq(Heap, R)[1]) = 32
       /\ WellFormedList(Heap, R)

\* block b is a multiple of 16 and at least 32 bytes, so the two list words
\* of its payload lie before its footer
SizeHoldsLinks(m, b) ==
  /\ block_size(m, b) % 16 = 0
  /\ block_size(m, b) >= 32
  /\ next_ptr(b) < block_ftr(m, b)
  /\ prev_ptr(b) < block_ftr(m, b)

\* C15: for every configuration the start-up accepts (min_split_size and
\* reserve_capacity multiples of 16, values below 32 included), after any
\* sequence of calls every block between the initial and the final block has
\* a size that is a multiple of 16 and at least 32, so the next and prev
\* words of a free block never lie on its footer or on the next header.
C15_BlockSizeAtLeast32 ==
  st = "ok" => \A R \in Regions(Heap) : \A b \in Blocks(Heap, R) :
                 SizeHoldsLinks(Heap, b)

C15_Witness ==
  /\ st = "ok"
  /\ config.min_split_size = 16
  /\ last.op = "malloc"
  /\ \E R \in Regions(Heap) :
       /\ Cardinality(Blocks(Heap, R)) = 3
       /\ \E b \in Blocks(Heap, R) : is_free(Heap, b)
       /\ \A b \in Blocks(Heap, R) : SizeHoldsLinks(Heap, b)

\* b is a free block of a region of m
FreeBlockOf(m, b) ==
  \E R \in Regions(m) : b \in Blocks(m, R) /\ is_free(m, b)

\* what is left of free block b after a request footprint s and the reserve
\* of the configuration record, as an integer
Leftover(m, b, s) == block_size(m, b) - (s + m.config.reserve_capacity)

\* this step is a lynx_malloc that took the free block b of the heap for a
\* request whose leftover is below min_split_size
TakesTight(b) ==
  /\ last'.op = "malloc"
  /\ st' = "ok"
  /\ ret' = block_data(b)
  /\ malloc_init = 1
  /\ FreeBlockOf(Heap, b)
  /\ Leftover(Heap, b, next16(last'.n)) < config.min_split_size

\* the block went to the caller whole
WholeBlock(b) ==
  /\ block_size(Heap', b) = block_size(Heap, b)
  /\ is_used(Heap', b)
  /\ RField(Heap', to_region(Heap, b), OffNFree) =
       RField(Heap, to_region(Heap, b), OffNFree) - 1

SplitDeclines == \A b \in DOMAIN mem : TakesTight(b) => WholeBlock(b)

\* C16: split declines, and the whole block goes to the caller, whenever
\* size(b) - (s + reserve_capacity) is below min_split_size as an integer,
\* also when size(b) < s + reserve_capacity; no suffix is made from a size
\* that wrapped around.
C16_SplitDeclinesBelowMin == [][SplitDeclines]_vars

C16_Witness ==
  /\ st = "ok"
  /\ last.op = "malloc"
  /\ last.n = 1
  /\ ret # NULL
  /\ block_size(Heap, to_block(ret)) = 48
  /\ counters.total_frees = 1

\* sequence s without the members of set gone, the others in their order
RECURSIVE Except(_, _)
Except(s, gone) ==
  IF s = <<>> THEN <<>>
  ELSE IF Head(s) \in gone THEN Except(Tail(s), gone)
  ELSE <<Head(s)>> \o Except(Tail(s), gone)

\* this step is a lynx_malloc that took the free block b of the heap and
\* split it
TakesSplit(b) ==
  /\ last'.op = "malloc"
  /\ st' = "ok"
  /\ ret' = block_data(b)
  /\ malloc_init = 1
  /\ FreeBlockOf(Heap, b)
  /\ block_size(Heap', b) < block_size(Heap, b)

\* the free suffix of a split of b
Suffix(b) == block_next(Heap', b)

\* the suffix is the head of the list of b's region, before the blocks that
\* were listed with b, in the order they had
SuffixAtHead(b) ==
  FreeSeq(Heap', to_region(Heap, b)) =
    <<Suffix(b)>> \o Except(FreeSeq(Heap, to_region(Heap, b)), {b})

SplitToRoot == \A b \in DOMAIN mem : TakesSplit(b) => SuffixAtHead(b)

\* C17: when lynx_malloc splits the block it chose, the free suffix is the
\* head of the region's free list afterwards, the chosen block is off the
\* list and the other members keep their order, also when the chosen block
\* was not the head.
C17_SuffixBecomesHead == [][SplitToRoot]_vars

C17_Witness ==
  /\ st = "ok"
  /\ last.op = "malloc"
  /\ ret # NULL
  /\ counters.total_frees = 2
  /\ \E R \in Regions(Heap) :
       /\ Len(FreeSeq(Heap, R)) = 2
       /\ FreeSeq(Heap, R)[1] = block_next(Heap, to_block(ret))
       /\ WellFormedList(Heap, R)

\* this step is a lynx_free of the caller's block p of a region that has
\* other used blocks
FreesKept(p) ==
  /\ last'.op = "free"
  /\ last'.p = p
  /\ st' = "ok"
  /\ SmallLive(Heap, p)
  /\ RegionOf(Heap, p) \in Regions(Heap)
  /\ RField(Heap, RegionOf(Heap, p), OffNUsed) > 1

\* block x lies in block c of the heap after the step
Within(x, c) == c <= x /\ x < c + block_size(Heap', c)

\* the free block that holds p is the head of the list of its region, and
\* behind it are the blocks listed before that it did not absorb, in the
\* order they had
MergedAtHead(p) ==
  LET R == RegionOf(Heap, p)
      c == RField(Heap', R, OffBlockList)
      old == FreeSeq(Heap, R)
  IN  /\ c # NULL
      /\ is_free(Heap', c)
      /\ Within(to_block(p), c)
      /\ FreeSeq(Heap', R) =
           <<c>> \o Except(old, { old[i] : i \in { j \in DOMAIN old : Within(old[j], c) } })

FreeToRoot == \A p \in DOMAIN live : FreesKept(p) => MergedAtHead(p)

\* C18: after lynx_free(p) of a block of a region that is not given back,
\* the free block holding p, merged with its free left and right neighbours,
\* is the head of the region's free list, the neighbours it absorbed are off
\* the list, and the other free blocks keep their order.
C18_FreedBlockBecomesHead == [][FreeToRoot]_vars

C18_Witness ==
  /\ st = "ok"
  /\ last.op = "free"
  /\ counters.total_frees = 2
  /\ \E R \in Regions(Heap) :
       /\ RField(Heap, R, OffNUsed) = 1
       /\ Len(FreeSeq(Heap, R)) = 2
       /\ block_size(Heap, FreeSeq(Heap, R)[1]) > 2000
       /\ WellFormedList(Heap, R)

\* the regions of m in the order of the list, from root along next
RECURSIVE RegionSeq(_, _, _)
RegionSeq(m, r, acc) ==
  IF r = NULL \/ ~Mapped(m, r) \/ (\E i \in DOMAIN acc : acc[i] = r) THEN acc
  ELSE RegionSeq(m, RField(m, r, OffNext), Append(acc, r))

\* the free blocks of m in search order: region by region, each free list
\* from block_list along next
RECURSIVE SearchFrom(_, _)
SearchFrom(m, rs) ==
  IF rs = <<>> THEN <<>>
  ELSE FreeSeq(m, Head(rs)) \o SearchFrom(m, Tail(rs))

SearchOrder(m) == SearchFrom(m, RegionSeq(m, m.root, <<>>))

\* the positions of the search order whose block holds s bytes
Fits(m, s) ==
  { i \in DOMAIN SearchOrder(m) : block_size(m, SearchOrder(m)[i]) >= s }

FirstFit(m, s) ==
  SearchOrder(m)[CHOOSE i \in Fits(m, s) : \A j \in Fits(m, s) : i <= j]

\* this step is a lynx_malloc(n) for a small n that returned a block
MallocSmallStep ==
  /\ last'.op = "malloc"
  /\ st' = "ok"
  /\ ret' # NULL
  /\ last'.n <= config'.max_block_size

\* the block is the first that fits and no region is made, or none fits and
\* one region is made
TakesFirstFit ==
  LET s == next16(last'.n)
  IN  IF Fits(Heap, s) # {}
      THEN /\ ret' = block_data(FirstFit(Heap, s))
           /\ counters'.region_allocs = counters.region_allocs
           /\ pages' = pages
      ELSE /\ counters'.region_allocs = counters.region_allocs + 1
           /\ PageOf(ret') \notin pages

FirstFitOrGrow == MallocSmallStep => TakesFirstFit

\* C19: for a small request of footprint s = next16(n), lynx_malloc uses the
\* first free block of size >= s in search order (regions from root along
\* next, each free list from block_list along next) and makes a new region
\* only when no region on the list has such a block; when one exists
\* region_allocs is unchanged and the pointer lies in an existing region.
C19_FirstFitBeforeGrowing == [][FirstFitOrGrow]_vars

C19_Witness ==
  /\ st = "ok"
  /\ last.op = "malloc"
  /\ last.n = 16
  /\ counters.total_frees = 1
  /\ counters.region_allocs = 1
  /\ \E R \in Regions(Heap) :
       /\ Len(FreeSeq(Heap, R)) = 2
       /\ block_size(Heap, FreeSeq(Heap, R)[1]) = 32
       /\ block_next(Heap, to_block(ret)) = FreeSeq(Heap, R)[2]

\* this step is a lynx_malloc(n) for a small n that split the block it
\* took: the first block of a region just made, or a free block of the heap
\* that is smaller afterwards
SplitStep ==
  /\ MallocSmallStep
  /\ \/ PageOf(ret') \notin pages
     \/ TakesSplit(to_block(ret'))

\* the footprint of a request of n bytes with the reserve of the
\* configuration record
Footprint(c, n) == next16(n) + c.reserve_capacity

\* the block of pointer p has the footprint of n as its size, and a free
\* block starts that many bytes after its header
PrefixOf(m, p, n) ==
  /\ block_size(m, to_block(p)) = Footprint(m.config, n)
  /\ is_free(m, to_block(p) + Footprint(m.config, n))
  /\ block_size(m, to_block(p) + Footprint(m.config, n)) > 0

PrefixHasReserve == SplitStep => PrefixOf(Heap', ret', last'.n)

\* C20: when a split happens the used prefix handed to the caller has size
\* next16(n) + reserve_capacity, reserve_capacity being the value of the
\* configuration record (the default or the RESERVE_CAPACITY of the
\* environment), and the free suffix starts that many bytes after the
\* header of the chosen block.
C20_PrefixIncludesReserve == [][PrefixHasReserve]_vars

C20_Witness ==
  /\ st = "ok"
  /\ last.op = "malloc"
  /\ last.n = 16
  /\ ret # NULL
  /\ counters.total_allocs = 2
  /\ PrefixOf(Heap, ret, 16)

\* A caller whose kernel has more pages, with REGION_SIZE unset or set to
\* two or three pages
WidePages == 7
MaxWideAllocs == 3
MaxWideLive == 3
WideSizes == {16, 2000, 8000, SIZE_MAX}
WideRegionSizes == {-1, 2 * PageSize, 3 * PageSize}

WideEnvs ==
  { [region_size |-> rs, max_block_size |-> -1, reserve_capacity |-> -1,
     min_split_size |-> -1, scribble_char |-> -1] : rs \in WideRegionSizes }

InitWide ==
  /\ mem = EmptyMem
  /\ pages = {}
  /\ root = NULL
  /\ config = [region_size |-> 0, max_block_size |-> 0, reserve_capacity |-> 0,
               min_split_size |-> 0, scribble_char |-> 0]
  /\ malloc_init = 0
  /\ counters = [x \in CounterNames |-> 0]
  /\ errno = 0
  /\ st = "ok"
  /\ env \in WideEnvs
  /\ live = EmptyMem
  /\ ret = NULL
  /\ last = NoCall

WideAnswers == {0} \cup { p * PageSize : p \in 1..WidePages }

CurWide(kq) == [Cur(kq) EXCEPT !.npages = WidePages]

\* the outcomes of a call F, one for each way the kernel with WidePages
\* pages can answer the mmap calls it makes
OutcomesWide(F(_)) ==
  LET r0 == F(<<>>)
      Two(k1) == { r2 \in { F(<<k1, k2>>) : k2 \in WideAnswers } :
                     ~r2.m.starved /\ r2.m.kok }
      One(k1) == LET r1 == F(<<k1>>)
                 IN  IF r1.m.starved THEN Two(k1)
                     ELSE IF r1.m.kok THEN {r1} ELSE {}
  IN  IF ~r0.m.starved THEN {r0}
      ELSE UNION { One(k1) : k1 \in WideAnswers }

MallocWide(n) ==
  /\ CanCall
  /\ Cardinality(DOMAIN live) < MaxWideLive
  /\ counters.total_allocs + counters.large_block_allocs < MaxWideAllocs
  /\ \E r \in OutcomesWide(LAMBDA kq : lynx_malloc(CurWide(kq), n)) :
       Commit(r, Call("malloc", NULL, n, 0), LiveAfterAlloc(r.v, n))

NextWide ==
  \/ \E n \in WideSizes : MallocWide(n)
  \/ \E p \in DOMAIN live : Free(p)
  \/ Return

SpecWide == InitWide /\ [][NextWide]_vars

\* the machine of the state once the one-time initialization is made, with
\* the kernel about to answer k1 and then k2
Ready(k1, k2) ==
  LET m == CurWide(<<k1, k2>>)
  IN  IF m.malloc_init = 0 THEN lynx_alloc_init(m) ELSE m

\* the bytes from a up to a + n lie in those from b up to b + k
Inside(a, n, b, k) == b <= a /\ a + n <= b + k

\* region_create got k1 for its first mapping and, when k1 is not a
\* multiple of region_size, k2 for the doubled one: the base r.v is a
\* multiple of region_size, the region lies in the mapping it was cut from,
\* and the pages mapped after the call are those mapped before and those of
\* the region
RegionCut(k1, k2, r) ==
  LET rs == r.m.config.region_size
  IN  /\ r.v % rs = 0
      /\ IF k1 % rs = 0 THEN Inside(r.v, rs, k1, rs)
         ELSE Inside(r.v, rs, k2, 2 * rs)
      /\ r.m.pages = pages \cup PagesOf(r.v, rs)
      /\ PagesOf(r.v, rs) \cap pages = {}

Created(r) == r.m.st = "ok" /\ r.m.kok /\ ~r.m.starved /\ r.v # NULL

\* C21: for every page-aligned address the kernel may return for the first
\* and for the doubled mapping, a region_create that succeeds yields a base
\* that is a multiple of region_size, the region lies inside the mapping
\* obtained, and the trimming unmaps the rest of it: region_size bytes stay
\* mapped, all of them in the region.
C21_RegionAlignedAndTrimmed ==
  BetweenCalls =>
    \A k1 \in WideAnswers \ {0} : \A k2 \in WideAnswers \ {0} :
      Created(region_map(Ready(k1, k2))) =>
        RegionCut(k1, k2, region_map(Ready(k1, k2)))

C21_Witness ==
  /\ BetweenCalls
  /\ root # NULL
  /\ \E k1 \in WideAnswers \ {0} : \E k2 \in WideAnswers \ {0} :
       /\ k1 % config.region_size # 0
       /\ k2 % config.region_size # 0
       /\ Created(region_map(Ready(k1, k2)))
       /\ RegionCut(k1, k2, region_map(Ready(k1, k2)))

\* addresses of the region of base B: the first word, a payload word and
\* the last word of each of its pages
ProbesOf(B, rs) ==
  { B + q * PageSize + o : q \in 0..(rs \div PageSize - 1),
                           o \in {0, RegionRecSize + 4 * Word, PageSize - Word} }

\* to_region finds the base B from every probed address of the region
FindsBase(m, B) ==
  \A p \in ProbesOf(B, m.config.region_size) : to_region(m, p) = B

\* C22: for every region_size the start-up accepts (any multiple of 4096,
\* powers of two or not) and every address p inside a region of base B,
\* to_region(p) is B.
C22_ToRegionFindsBase ==
  BetweenCalls =>
    /\ \A R \in Regions(Heap) : FindsBase(Heap, R)
    /\ \A k1 \in WideAnswers \ {0} : \A k2 \in WideAnswers \ {0} :
         Created(region_map(Ready(k1, k2))) =>
           FindsBase(region_map(Ready(k1, k2)).m, region_map(Ready(k1, k2)).v)

C22_Witness ==
  /\ BetweenCalls
  /\ config.region_size = 2 * PageSize
  /\ Cardinality(DOMAIN live) = 3
  /\ \E p \in DOMAIN live : p > root + PageSize /\ RegionOf(Heap, p) = root
  /\ \A R \in Regions(Heap) : FindsBase(Heap, R)

\* the words of the heap before the step that lie outside the pages gone
\* are what they were, and no other word outside the pages come is set
RestKept(come, gone) ==
  /\ \A a \in DOMAIN mem : PageOf(a) \notin gone => Rd(Heap', a) = mem[a]
  /\ \A a \in DOMAIN mem' : a \in DOMAIN mem \/ PageOf(a) \in come
  /\ root' = root
  /\ counters'.region_allocs = counters.region_allocs
  /\ counters'.region_frees = counters.region_frees

\* this step is a lynx_malloc(n) with n > max_block_size that returned a
\* block, with no mmap failing
LargeMallocStep ==
  /\ last'.op = "malloc"
  /\ st' = "ok"
  /\ ret' # NULL
  /\ ~last'.mapfail
  /\ last'.n > config'.max_block_size

\* one mapping of next16(n) bytes was made, the block is at its start and
\* records its length, and nothing else changed
LargeMapped ==
  /\ (ret' - 16) % PageSize = 0
  /\ pages \cap PagesOf(ret' - 16, next16(last'.n)) = {}
  /\ pages' = pages \cup PagesOf(ret' - 16, next16(last'.n))
  /\ is_large(Heap', to_block(ret'))
  /\ block_size(Heap', to_block(ret')) = next16(last'.n)
  /\ counters'.large_block_allocs = counters.large_block_allocs + 1
  /\ RestKept(PagesOf(ret' - 16, next16(last'.n)), {})

\* this step is a lynx_free of the caller's large block p
LargeFreeStep(p) ==
  /\ last'.op = "free"
  /\ last'.p = p
  /\ st' = "ok"
  /\ Mapped(Heap, p)
  /\ is_large(Heap, to_block(p))

\* the mapping of p, from its base and of the length the malloc asked for,
\* was unmapped, and nothing else changed
LargeUnmapped(p) ==
  /\ PagesOf(p - 16, next16(live[p])) \subseteq pages
  /\ pages' = pages \ PagesOf(p - 16, next16(live[p]))
  /\ block_size(Heap, to_block(p)) = next16(live[p])
  /\ counters'.large_block_frees = counters.large_block_frees + 1
  /\ RestKept({}, PagesOf(p - 16, next16(live[p])))

LargeMapsAndUnmaps ==
  /\ LargeMallocStep => LargeMapped
  /\ \A p \in DOMAIN live : LargeFreeStep(p) => LargeUnmapped(p)

\* C23: for every n > max_block_size a lynx_malloc(n) that succeeds makes
\* one new mapping of next16(n) bytes, and lynx_free of the pointer unmaps
\* that mapping, same base and same length, once; neither call changes the
\* region list, a free list, or the n_free and n_used of a region.
C23_LargeBlockOwnMapping == [][LargeMapsAndUnmaps]_vars

C23_Witness ==
  /\ st = "ok"
  /\ last.op = "free"
  /\ counters.large_block_frees = 1
  /\ counters.large_block_allocs = 1
  /\ root # NULL
  /\ Cardinality(pages) = Cardinality(PagesOf(root, config.region_size))

\* the region list of m as the program walks it, with the link it ends on
RegionList(m) == RegionSeq(m, m.root, <<>>)

RECURSIVE ListEnd(_, _, _)
ListEnd(m, r, seen) ==
  IF r = NULL \/ ~Mapped(m, r) \/ r \in seen THEN r
  ELSE ListEnd(m, RField(m, r, OffNext), seen \cup {r})

\* the pages of the large blocks the caller holds
LargePages(m) ==
  UNION { PagesOf(p - 16, block_size(m, to_block(p))) :
            p \in { q \in DOMAIN live : Mapped(m, q) /\ is_large(m, to_block(q)) } }

\* the list ends in a null link, the prev links mirror the next links, and
\* the pages mapped are those of the listed regions, no page twice, and
\* those of the large blocks
RegionListWellFormed(m) ==
  LET s == RegionList(m)
      n == Len(s)
      rs == m.config.region_size
  IN  /\ ListEnd(m, m.root, {}) = NULL
      /\ n > 0 => RField(m, s[1], OffPrev) = NULL
      /\ \A i \in 1..(n - 1) : RField(m, s[i + 1], OffPrev) = s[i]
      /\ \A i \in 1..n : \A j \in 1..n :
           i # j => PagesOf(s[i], rs) \cap PagesOf(s[j], rs) = {}
      /\ m.pages \ LargePages(m) = UNION { PagesOf(s[i], rs) : i \in 1..n }

\* a step that makes a region puts it before the others, a step that gives
\* a region back takes it out, and every step leaves the others in order
RegionListStep ==
  st' = "ok" =>
    IF counters'.region_allocs # counters.region_allocs
    THEN /\ root' # NULL
         /\ PageOf(root') \notin pages
         /\ RegionList(Heap') = <<root'>> \o RegionList(Heap)
    ELSE \E gone \in SUBSET Regions(Heap) :
           /\ Cardinality(gone) = counters'.region_frees - counters.region_frees
           /\ gone \cap Regions(Heap') = {}
           /\ RegionList(Heap') = Except(RegionList(Heap), gone)

\* C24: after any sequence of public calls root is the most recently made
\* region of those still mapped, root.prev is null, the region list ends in
\* null without a cycle, r.next.prev = r for every listed region with a
\* successor, and every mapped region is on the list once.
C24_RegionListNewestFirst ==
  /\ [](st = "ok" => RegionListWellFormed(Heap))
  /\ [][RegionListStep]_vars

C24_Witness ==
  /\ st = "ok"
  /\ last.op = "free"
  /\ counters.region_allocs = 3
  /\ counters.region_frees = 1
  /\ Len(RegionList(Heap)) = 2
  /\ RegionListWellFormed(Heap)

\* the mapping behind the large block of pointer p holds n bytes after its
\* 16 bytes of header
MappingHolds(m, p, n) ==
  /\ block_size(m, to_block(p)) >= n + 16
  /\ PagesOf(p - 16, n + 16) \subseteq m.pages

LargeHoldsRequest == LargeMallocStep => MappingHolds(Heap', ret', last'.n)

\* C25: for every n > max_block_size up to the largest word, when
\* lynx_malloc(n) returns a pointer that is not NULL the mapping behind it
\* is at least n + 16 bytes long; next16(n) never wraps to a small value
\* that is then mapped and returned.
C25_LargeMappingHoldsRequest == [][LargeHoldsRequest]_vars

C25_Witness ==
  /\ st = "ok"
  /\ last.op = "malloc"
  /\ last.n = 8000
  /\ ~last.mapfail
  /\ ret # NULL
  /\ MappingHolds(Heap, ret, last.n)

====
